---- MODULE Spec2Model ----
(***************************************************************************)
(* txrest: the dispatch / lifecycle engine of RestResource                 *)
(* (src/txrest/__init__.py) with the JSON format plugin                    *)
(* (src/txrest/json.py), as a state machine over one inbound request.      *)
(*                                                                         *)
(* The code is Python 2 on Twisted.  The reactor is single threaded, so    *)
(* every callback runs to completion: one action of the model is one       *)
(* reactor event (a request being processed, a handler's Deferred firing,  *)
(* a callLater firing, the connection being lost) together with every call *)
(* the code makes synchronously inside it.                                 *)
(*                                                                         *)
(* The synchronous calls are operators over a "world" record w that holds  *)
(* the request's fields, the handler Deferred, the pending notifyFinish    *)
(* errbacks, the callLater queue, the history the properties read, and     *)
(* three transient fields: exc (the exception propagating, "none" when     *)
(* none), ret (a render's return value) and payload (UnsupportedMethod's   *)
(* allowedMethods).                                                        *)
(***************************************************************************)
EXTENDS Integers, Sequences, FiniteSets, TLC

\* ------------------------------------------------------------------ bounds
\* The longest chain of nested resources the handlers of one request return.
MaxChain == 6
\* The longest request body, in bytes.
MaxBody == 2

\* --------------------------------------------------------------- constants
RECURSION_DEPTH == 5
INTERNAL_SERVER_ERROR == 500
BAD_REQUEST == 400
\* body[:60], the excerpt of the input in _format_post's ValueError
EXCERPT_LEN == 60

REST_METHOD == "rest"

DEFAULT_ENCODING == "utf-8"

ACCEPT_HEADER == "application/json"

\* CONTENT_TYPE_HEADER % encoding
CONTENT_TYPE_HEADER(encoding) == <<"application/json; charset=", encoding>>

\* txrest.xml.ACCEPT_HEADER
Xml_ACCEPT_HEADER == "application/xml"

\* txrest.xml.CONTENT_TYPE_HEADER % encoding
Xml_CONTENT_TYPE_HEADER(encoding) == <<"application/xml; charset=", encoding>>

\* ------------------------------------------------------------------ inputs
\* request.method.  The modelled resource classes have no rest_PUT.
Methods == {"GET", "HEAD", "POST", "PUT"}

\* The attributes render looks up: REST_METHOD_PREFIX + method, and REST_METHOD.
AttrNames == {"rest_GET", "rest_HEAD", "rest_POST", "rest"}

\* meth_name = REST_METHOD_PREFIX + str(request.method)
PrefixedName(method) ==
    CASE method = "GET" -> "rest_GET"
      [] method = "HEAD" -> "rest_HEAD"
      [] method = "POST" -> "rest_POST"
      [] OTHER -> "rest_PUT"

\* What a class attribute can be: not there, a method, a true value that is
\* not callable (rest_GET = "x"), a false value (rest_GET = None, 0, "").
Kinds == {"absent", "func", "noncallable", "falsy"}

\* allowedMethods of a class: not declared, or a declared list / tuple.
NotDeclared == {"<undeclared>"}
AllowedDecls == {NotDeclared, {"GET"}}

\* RestResource(encoding=...): the default, or another codec
Encodings == {DEFAULT_ENCODING, "latin-1"}

\* HANDLE_TYPES widened by int
HANDLE_TYPES_WithInt == {"value", "nan", "int"}

\* txrest.json: HANDLE_TYPES = (dict, list, tuple), as the kinds of value a
\* handler hands back (see Outcome) that are instances of them
HANDLE_TYPES == {"value", "nan"}

\* txrest.xml: HANDLE_TYPES = tuple(ELEMENT_TYPES)
Xml_HANDLE_TYPES == {"element"}

\* A class attribute that the class does not define itself
Inherited == {"<inherited>"}

\* The format classes: the attributes the engine and the mixins read.
\* _format_post and _format_response name the class whose function it is.
JsonResource ==
    [name |-> "JsonResource", HANDLE_TYPES |-> HANDLE_TYPES,
     format_post |-> "JsonResource", format_response |-> "JsonResource"]

XmlResource ==
    [name |-> "XmlResource", HANDLE_TYPES |-> Xml_HANDLE_TYPES,
     format_post |-> "XmlResource", format_response |-> "XmlResource"]

\* class impl_cls(base): the application's resource class, which defines
\* neither HANDLE_TYPES nor the two format functions
Subclass(base) ==
    [base |-> base, HANDLE_TYPES |-> Inherited,
     format_post |-> "<inherited>", format_response |-> "<inherited>"]

\* the format class a class derives from
RECURSIVE FormatClass(_)
FormatClass(cls) == IF "base" \in DOMAIN cls THEN FormatClass(cls.base) ELSE cls

\* self.HANDLE_TYPES, self._format_post, self._format_response: the class's own
\* attribute, else that of the nearest base that has one
RECURSIVE Class_HANDLE_TYPES(_)
Class_HANDLE_TYPES(cls) ==
    IF cls.HANDLE_TYPES # Inherited THEN cls.HANDLE_TYPES
    ELSE Class_HANDLE_TYPES(cls.base)

RECURSIVE Class_format_post(_)
Class_format_post(cls) ==
    IF cls.format_post # "<inherited>" THEN cls.format_post
    ELSE Class_format_post(cls.base)

RECURSIVE Class_format_response(_)
Class_format_response(cls) ==
    IF cls.format_response # "<inherited>" THEN cls.format_response
    ELSE Class_format_response(cls.base)

\* A resource: a RestResource subclass instance ("rest"), or a plain
\* twisted.web.resource.Resource that renders to bytes ("plain").
RestClasses(kinds) ==
    [kind : {"rest"}, attrs : [AttrNames -> kinds], allowedMethods : AllowedDecls,
     encoding : Encodings, cls : {Subclass(JsonResource)}]

NoAttrs == [a \in AttrNames |-> "absent"]

PlainResource ==
    [kind |-> "plain", attrs |-> NoAttrs, allowedMethods |-> NotDeclared,
     encoding |-> DEFAULT_ENCODING, cls |-> Subclass(JsonResource)]

NoResource ==
    [kind |-> "none", attrs |-> NoAttrs, allowedMethods |-> NotDeclared,
     encoding |-> DEFAULT_ENCODING, cls |-> Subclass(JsonResource)]

\* The bytes a request body is made of: "sp" is the space 0x20 and "hi" the
\* byte 0xFF (not ASCII); the others are themselves.
BodyBytes == {"sp", "{", "}", "[", "]", "hi"}

RECURSIVE SeqsUpTo(_, _)
SeqsUpTo(S, n) ==
    IF n = 0 THEN {<<>>}
    ELSE LET shorter == SeqsUpTo(S, n - 1)
         IN shorter \cup {Append(s, b) : s \in {t \in shorter : Len(t) = n - 1}, b \in S}

Bodies == SeqsUpTo(BodyBytes, MaxBody)

\* The reason a connection was lost: the three on_connection_closed names, or
\* any other failure.
Reasons == {"ConnectionDone", "ConnectionLost", "ConnectionAborted", "other"}


\* ------------------------------------------------------------- JSON codec
\* body.lstrip()
RECURSIVE LStrip(_)
LStrip(s) == IF s # <<>> /\ Head(s) = "sp" THEN LStrip(Tail(s)) ELSE s

\* body[:n]
Take(s, n) == IF Len(s) <= n THEN s ELSE SubSeq(s, 1, n)

\* A Python value a codec decodes to or encodes from: a dict or a list with
\* its items, None, an Element, request.args.
Value(type, items) == [type |-> type, items |-> items]

NoneValue == Value("None", <<>>)

NoParse == [ok |-> FALSE, rest |-> <<>>, value |-> NoneValue]

\* json.loads on the model's bytes: a document is {} or [] or an array of one
\* document; the structured value is the dict, or the list with its item.
RECURSIVE ParseValue(_)
ParseValue(s) ==
    LET t == LStrip(s)
    IN IF t = <<>> THEN NoParse
       ELSE LET u == LStrip(Tail(t))
            IN CASE Head(t) = "{" ->
                      IF u # <<>> /\ Head(u) = "}"
                      THEN [ok |-> TRUE, rest |-> Tail(u), value |-> Value("dict", <<>>)]
                      ELSE NoParse
                 [] Head(t) = "[" ->
                      IF u # <<>> /\ Head(u) = "]"
                      THEN [ok |-> TRUE, rest |-> Tail(u), value |-> Value("list", <<>>)]
                      ELSE LET r == ParseValue(u)
                               v == LStrip(r.rest)
                           IN IF r.ok /\ v # <<>> /\ Head(v) = "]"
                              THEN [ok |-> TRUE, rest |-> Tail(v),
                                    value |-> Value("list", <<r.value>>)]
                              ELSE NoParse
                 [] OTHER -> NoParse

json_loads(body) ==
    LET r == ParseValue(body)
    IN IF r.ok /\ LStrip(r.rest) = <<>>
       THEN [exc |-> "none", msg |-> <<>>, value |-> r.value]
       ELSE [exc |-> "ValueError", msg |-> <<>>, value |-> NoneValue]

\* json.dumps(response, ...).encode(encoding): the bytes of the document of a
\* dict, of a list with its item, of request.args
RECURSIVE json_dumps(_)
json_dumps(v) ==
    CASE v.type = "dict" -> <<"{", "}">>
      [] v.type = "args" -> <<"{", "args", "}">>
      [] OTHER -> <<"[">> \o (IF v.items = <<>> THEN <<>> ELSE json_dumps(v.items[1]))
                       \o <<"]">>

\* JsonResource._format_post: exc is the exception raised ("none": value is
\* returned); msg is the part of the exception's message taken from the input.
\* body.lstrip()[0] raises IndexError on an empty or whitespace-only body.
format_post(body) ==
    LET stripped == LStrip(body)
    IN IF stripped = <<>>
       THEN [exc |-> "IndexError", msg |-> <<>>, value |-> NoneValue]
       ELSE IF Head(stripped) \notin {"{", "["}
            THEN [exc |-> "ValueError", msg |-> Take(body, EXCERPT_LEN), value |-> NoneValue]
            ELSE json_loads(body)

\* -------------------------------------------------------------- XML codec
\* The bytes of an XML body: "decl" is the declaration <?xml version="1.0"?>,
\* "<a/>" an element, "x" a byte that is neither markup nor white space.
XmlBytes == {"decl", "<a/>", "x", "sp"}

\* etree.fromstring on the model's bytes: a document is one element, white
\* space allowed around it, after the declaration if there is one; the
\* declaration is accepted at the very start only.
etree_fromstring(body) ==
    LET t == LStrip(IF body # <<>> /\ Head(body) = "decl" THEN Tail(body) ELSE body)
    IN IF t # <<>> /\ Head(t) = "<a/>" /\ LStrip(Tail(t)) = <<>>
       THEN [exc |-> "none", msg |-> <<>>, value |-> Value("Element", <<>>)]
       ELSE [exc |-> "XMLSyntaxError", msg |-> <<>>, value |-> NoneValue]

\* XmlResource._format_post: the body is parsed into body_data, which is not
\* returned: the function returns None.
Xml_format_post(body) ==
    LET stripped == LStrip(body)
    IN IF stripped = <<>> \/ Head(stripped) # "decl"
       THEN [exc |-> "ValueError", msg |-> Take(body, EXCERPT_LEN), value |-> NoneValue]
       ELSE IF etree_fromstring(body).exc # "none"
            THEN etree_fromstring(body)
            ELSE [exc |-> "none", msg |-> <<>>, value |-> NoneValue]

\* etree.tostring(response, encoding=encoding): the declaration and a newline
\* precede the element unless the encoding is UTF-8 (or ASCII); only an
\* Element can be serialized.
etree_tostring(response, encoding) ==
    IF response.type # "Element"
    THEN [exc |-> "TypeError", bytes |-> "none", data |-> <<>>]
    ELSE [exc |-> "none", bytes |-> "encoded",
          data |-> (IF encoding = DEFAULT_ENCODING THEN <<>> ELSE <<"decl", "sp">>)
                      \o <<"<a/>">>]

\* What a handler hands back (the value its call returns, or the value its
\* Deferred fires with):
\*   "value"    a dict or a list, JSON-encodable
\*   "nan"      a dict holding a non-finite float: json.dumps(allow_nan=False) raises
\*   "int"      an integer: not in HANDLE_TYPES, not a Resource
\*   "none"     None
\*   "element"  an Element
\*   "str"      a byte string
\*   "unicode"  a unicode string
\*   "echo"     (POST, PUT) the decoded body the handler was given
\*   "rest"     a RestResource (res)
\*   "plain"    a plain Resource
\*   "raise"    the handler raised Exception('boom') / the Deferred failed with it
\*   "raise_hi" the handler raised Exception('boom\xff')
\*   "defgen"   the handler raised _DefGen_Return (defer.returnValue without inlineCallbacks)
\*   "raise_both" the handler raised an exception of a class derived from both
\*              CancelledError and _DefGen_Return
\*   "deferred" the handler returned a Deferred that has not fired
DefaultValue(kind) ==
    CASE kind = "value" -> Value("dict", <<>>)
      [] kind = "nan" -> Value("dict", <<Value("nan", <<>>)>>)
      [] kind = "element" -> Value("Element", <<>>)
      [] kind = "str" -> Value("str", <<"s", "E9">>)
      [] kind = "unicode" -> Value("unicode", <<"s", "e-acute">>)
      [] OTHER -> NoneValue

Outcome(kind, res) == [kind |-> kind, res |-> res, val |-> DefaultValue(kind)]

\* the kind of a value, by its type
KindOf(v) ==
    CASE v.type \in {"dict", "list", "args"} -> "value"
      [] v.type = "Element" -> "element"
      [] v.type = "str" -> "str"
      [] v.type = "unicode" -> "unicode"
      [] OTHER -> "none"

\* return post: the handler hands back the value it was given
Echo(v) == [kind |-> KindOf(v), res |-> NoResource, val |-> v]

\* isinstance(response, resource.Resource)
IsResource(response) == response.kind \in {"rest", "plain"}

\* JsonResource._format_response: bytes names what is written, data is the
\* bytes themselves
format_response(response) ==
    IF response.kind = "nan"
    THEN [exc |-> "ValueError", bytes |-> "none", data |-> <<>>]
    ELSE [exc |-> "none", bytes |-> "encoded", data |-> json_dumps(response.val)]

\* ------------------------------------------------------------------ mixins
\* request.getHeader('Content-Type'): None when the request has no such header
NoHeader == "<no header>"

WWW_FORM == "application/x-www-form-urlencoded"

FORM_DATA == "multipart/form-data"

ContentTypes == {NoHeader, WWW_FORM, "multipart/form-data; boundary=x", "application/json"}

\* FormEncodedPost.FORM_DATA in content_type
Contains_FORM_DATA(content_type) ==
    content_type \in {FORM_DATA, "multipart/form-data; boundary=x"}

Mixins == {"EmptyPost", "FormEncodedPost", "StringResponse"}

\* setup extending the tuple of the class that defines HANDLE_TYPES, the
\* format class
StringResponse_setup_OnBase(impl_cls) ==
    [impl_cls EXCEPT !.base.HANDLE_TYPES = @ \cup {"str", "unicode"}]

\* StringResponse.setup: impl_cls.HANDLE_TYPES is assigned the class's
\* HANDLE_TYPES plus basestring
StringResponse_setup(impl_cls) ==
    [impl_cls EXCEPT !.HANDLE_TYPES = Class_HANDLE_TYPES(impl_cls) \cup {"str", "unicode"}]

\* ResourceMixin.mixin: each function named in cls.methods is set on impl_cls,
\* then cls.setup(impl_cls) runs (a no-op but for StringResponse)
ResourceMixin_mixin(mixin, impl_cls) ==
    IF mixin = "StringResponse"
    THEN StringResponse_setup([impl_cls EXCEPT !.format_response = mixin])
    ELSE [impl_cls EXCEPT !.format_post = mixin]

\* super(self.__class__, self)._format_post(request, body, encoding): the
\* function is looked up in the bases of self.__class__.  For an instance of
\* the decorated class that is the format's function.  For an instance of a
\* class derived from the decorated class it is the mixin's function again,
\* which makes the same call with the same arguments: the calls nest until the
\* interpreter's recursion limit, RuntimeError.
Super_format_post(self, body) ==
    CASE Class_format_post(self.cls.base) \in Mixins ->
            [exc |-> "RuntimeError", msg |-> <<"maximum recursion depth exceeded">>,
             value |-> NoneValue]
      [] Class_format_post(self.cls.base) = "XmlResource" -> Xml_format_post(body)
      [] OTHER -> format_post(body)

\* EmptyPost._format_post: None for an empty or white-space body; for any
\* other the call to the base names `response`, which is no name of the
\* function: NameError
EmptyPost_format_post(self, body) ==
    IF LStrip(body) = <<>>
    THEN [exc |-> "none", msg |-> <<>>, value |-> NoneValue]
    ELSE [exc |-> "NameError", msg |-> <<>>, value |-> NoneValue]

\* FormEncodedPost._format_post: without a Content-Type header content_type is
\* None and `FORM_DATA in content_type` raises TypeError
FormEncodedPost_format_post(self, w, body) ==
    IF w.contentType = NoHeader
    THEN [exc |-> "TypeError", msg |-> <<>>, value |-> NoneValue]
    ELSE IF w.contentType = WWW_FORM \/ Contains_FORM_DATA(w.contentType)
    THEN [exc |-> "none", msg |-> <<>>, value |-> w.args]
    ELSE Super_format_post(self, body)

\* self._format_post(request, body, self.encoding)
Resource_format_post(self, w, body) ==
    CASE Class_format_post(self.cls) = "EmptyPost" -> EmptyPost_format_post(self, body)
      [] Class_format_post(self.cls) = "FormEncodedPost" ->
            FormEncodedPost_format_post(self, w, body)
      [] Class_format_post(self.cls) = "XmlResource" -> Xml_format_post(body)
      [] OTHER -> format_post(body)

\* unicode.encode(encoding) of the model's characters
RECURSIVE Encode(_, _)
Encode(text, encoding) ==
    IF text = <<>> THEN <<>>
    ELSE (IF Head(text) = "e-acute"
          THEN (IF encoding = DEFAULT_ENCODING THEN <<"C3", "A9">> ELSE <<"E9">>)
          ELSE <<Head(text)>>) \o Encode(Tail(text), encoding)

\* super(self.__class__, self)._format_response(request, response, encoding),
\* looked up in the bases of self.__class__ as for _format_post
Super_format_response(self, response) ==
    CASE Class_format_response(self.cls.base) \in Mixins ->
            [exc |-> "RuntimeError", bytes |-> "none", data |-> <<>>]
      [] Class_format_response(self.cls.base) = "XmlResource" ->
            etree_tostring(response.val, self.encoding)
      [] OTHER -> format_response(response)

\* StringResponse._format_response
StringResponse_format_response(self, response) ==
    IF response.val.type = "str"
    THEN [exc |-> "none", bytes |-> "encoded", data |-> response.val.items]
    ELSE IF response.val.type = "unicode"
    THEN [exc |-> "none", bytes |-> "encoded",
          data |-> Encode(response.val.items, self.encoding)]
    ELSE Super_format_response(self, response)

\* self._format_response(request, response, self.encoding)
Resource_format_response(self, response) ==
    CASE Class_format_response(self.cls) = "StringResponse" ->
            StringResponse_format_response(self, response)
      [] Class_format_response(self.cls) = "XmlResource" ->
            etree_tostring(response.val, self.encoding)
      [] OTHER -> format_response(response)

\* ------------------------------------------------------ exceptions, Request
Raise(w, e) == [w EXCEPT !.exc = e]

Raised(w) == w.exc # "none"

\* v is evaluated once and G applied to its value: a statement followed by
\* the rest of the function
Bind(v, G(_)) == CHOOSE r \in {G(u) : u \in {v}} : TRUE

\* the statements G run unless v raised
Then(v, G(_)) == Bind(v, LAMBDA u : IF Raised(u) THEN u ELSE G(u))

\* an entry made only when the site shows tracebacks
log_err_OnlyWithTracebacks(w) ==
    IF w.displayTracebacks THEN [w EXCEPT !.logged = @ + 1] ELSE w

\* twisted.python.log.err(err) / log.msg(...): an entry in the server's log
log_err(w) == [w EXCEPT !.logged = @ + 1]

\* twisted.web.http.Request.write: a write after finish() raises; a write after
\* the connection was lost is accepted (the bytes go nowhere).  written is the
\* sequence of the data of every accepted call.
Request_write(w, data) ==
    IF w.finished
    THEN Raise(w, "RuntimeError")
    ELSE [w EXCEPT !.written = Append(@, data)]

\* twisted.web.http.Request.finish: raises after the connection was lost, warns
\* and returns when called twice, else sets finished and fires the
\* notifyFinish Deferreds with callback(None) (their errbacks do not run).
Request_finish(w) ==
    IF w.disconnected THEN Raise([w EXCEPT !.finishCalls = @ + 1], "RuntimeError")
    ELSE IF w.finished THEN [w EXCEPT !.finishCalls = @ + 1]
    ELSE [w EXCEPT !.finishCalls = @ + 1, !.finished = TRUE, !.notifications = 0,
                   !.notifiers = {}]

\* request.write(rstr) without the request.finish() after it
WriteAndFinish_NoFinish(w, data) == Request_write(w, data)

\* request.write(rstr); request.finish()
WriteAndFinish(w, data) == Then(Request_write(w, data), Request_finish)

\* ----------------------------------------------------------- JsonErrorPage
\* unicode(self.detail): the ascii codec, which a byte >= 0x80 breaks
unicode_fails(detail) == \E i \in 1..Len(detail) : detail[i] = "hi"

\* A text is the sequence of the parts it is made of: the names of what it
\* tells (fq_name, method_called, file_path, traceback, type, boom: the
\* message of an exception) and bytes of the request body.
\* response['detail'] = None
NullDetail == <<"null">>

NoEnvelope == [exc |-> "none", format |-> "none", code |-> 0, error |-> "none",
               detail |-> NullDetail]

\* JsonErrorPage.render: the document it returns, or the exception it raises.
\* unicode(self.detail) is evaluated whatever displayTracebacks and log are; the
\* log lines work on copies of brief and detail.
JsonErrorPage_render(status, brief, detail, log, displayTracebacks) ==
    IF unicode_fails(detail)
    THEN [NoEnvelope EXCEPT !.exc = "UnicodeDecodeError"]
    ELSE [exc |-> "none", format |-> "json", code |-> status, error |-> brief,
          detail |-> IF displayTracebacks THEN detail ELSE NullDetail]

\* XmlErrorPage.render (lxml): with log set, the local detail is assigned the
\* normalized self.detail again after displayTracebacks cleared it, and that
\* is what the <detail> element gets.  A text with a byte >= 0x80 cannot be
\* an element's text.
XmlErrorPage_render(status, brief, detail, log, displayTracebacks) ==
    IF unicode_fails(detail) /\ log
    THEN [NoEnvelope EXCEPT !.exc = "UnicodeDecodeError"]
    ELSE IF unicode_fails(detail) /\ displayTracebacks
    THEN [NoEnvelope EXCEPT !.exc = "ValueError"]
    ELSE [exc |-> "none", format |-> "xml", code |-> status, error |-> brief,
          detail |-> IF log \/ displayTracebacks THEN detail ELSE NullDetail]

\* JsonErrorPage(status, brief, detail, log=log) / XmlErrorPage(...), with the
\* default encoding
NoPage == [format |-> "none", status |-> 0, brief |-> "none", detail |-> <<>>, log |-> FALSE]

\* page.render(request), as functions of the page and of
\* request.site.displayTracebacks
Page_body(p, displayTracebacks) ==
    IF p.format = "json"
    THEN JsonErrorPage_render(p.status, p.brief, p.detail, p.log, displayTracebacks)
    ELSE XmlErrorPage_render(p.status, p.brief, p.detail, p.log, displayTracebacks)

\* page.render(request): the status and the two headers are set once the
\* document is built
Page_render(w, p) ==
    Bind(Page_body(p, w.displayTracebacks), LAMBDA e :
        IF e.exc # "none"
        THEN Raise(w, e.exc)
        ELSE [(IF p.log THEN log_err(w) ELSE w) EXCEPT
                       !.code = p.status,
                       !.accept = IF p.format = "json" THEN ACCEPT_HEADER
                                  ELSE Xml_ACCEPT_HEADER,
                       !.ctype = IF p.format = "json"
                                 THEN CONTENT_TYPE_HEADER(DEFAULT_ENCODING)
                                 ELSE Xml_CONTENT_TYPE_HEADER(DEFAULT_ENCODING),
                       !.ret = p.brief,
                       !.envelope = e])

\* self.ERROR_CLASS(status, brief, detail, log=False).render(request):
\* JsonErrorPage for a JsonResource, XmlErrorPage for an XmlResource.  ret is
\* the document, named by its brief; envelope is what the document holds.
ErrorPage_render(w, status, brief, detail) ==
    Page_render(w, [format |-> IF FormatClass(w.resource.cls).name = "XmlResource"
                               THEN "xml" ELSE "json",
                    status |-> status, brief |-> brief, detail |-> detail,
                    log |-> FALSE])

\* ---------------------------------------------------- the Deferred's chain
\* self._format_response called without the try / except around it
TryFormatResponse_Unguarded(w, response) ==
    IF Resource_format_response(w.resource, response).exc = "none"
    THEN [w EXCEPT !.ret = Resource_format_response(w.resource, response).bytes,
                   !.body = Resource_format_response(w.resource, response).data,
                   !.formatCalls = @ + 1]
    ELSE Raise([w EXCEPT !.formatCalls = @ + 1],
               Resource_format_response(w.resource, response).exc)

\* on_response, lines 224-234: rstr is the encoded response, or the 500
\* envelope when _format_response raises
TryFormatResponse(w, response) ==
    IF Resource_format_response(w.resource, response).exc = "none"
    THEN [w EXCEPT !.ret = Resource_format_response(w.resource, response).bytes,
                   !.body = Resource_format_response(w.resource, response).data,
                   !.formatCalls = @ + 1]
    ELSE ErrorPage_render(log_err([w EXCEPT !.formatCalls = @ + 1]), INTERNAL_SERVER_ERROR,
                          "Resource Error", <<"fq_name", "method_called", "traceback">>)

\* the nested resource rendered at once, inside on_response: its body is
\* written and the request finished before on_response returns
RenderNested_Inline(w, response) ==
    IF w.recursion >= RECURSION_DEPTH
    THEN Raise(w, "NameError")
    ELSE WriteAndFinish([w EXCEPT !.recursion = @ + 1, !.queued = @ + 1, !.clen = "plain"],
                        "plain")

\* on_response, lines 249-256: the nested resource is queued with callLater,
\* unless the recursion limit is reached: then failure.Failure(exc) raises
\* NameError, the name failure not being imported.
RenderNested(w, response) ==
    IF w.recursion >= RECURSION_DEPTH
    THEN Raise(w, "NameError")
    ELSE [w EXCEPT !.recursion = @ + 1, !.delayed = response.res, !.queued = @ + 1]

\* RestResource.on_response
on_response(w0, response) ==
    Bind([w0 EXCEPT !.onResp = @ + 1, !.respKind = response.kind], LAMBDA w :
        IF w.finished THEN w
        ELSE IF response.kind \in Class_HANDLE_TYPES(w.resource.cls)
        THEN Then(TryFormatResponse(w, response), LAMBDA w1 :
                  WriteAndFinish([w1 EXCEPT !.clen = w1.ret], w1.ret))
        ELSE IF IsResource(response)
        THEN RenderNested(w, response)
        ELSE Then(ErrorPage_render(log_err(w), INTERNAL_SERVER_ERROR, "Resource Error",
                                   <<"fq_name", "method_called", "type">>),
                  LAMBDA w1 : WriteAndFinish(w1, w1.ret)))

\* failure.getErrorMessage(): the handler's exceptions carry the message boom,
\* one of them with a byte >= 0x80 after it
FailureMessage(failure) ==
    CASE failure = "Exception" -> <<"boom">>
      [] failure = "Exception(0xFF)" -> <<"boom", "hi">>
      [] OTHER -> <<failure>>

\* on_failure, lines 287-296: err, the text given as the brief of the
\* _DefGen_Return envelope
DEFGEN_BRIEF == "Received a Deferred Generator Response from Resource"

\* what the text of a brief names of the application:
\* err % (fq_name, request.method_called, file_path)
BriefNames(brief) ==
    IF brief = DEFGEN_BRIEF THEN {"fq_name", "method_called", "file_path"} ELSE {}

\* The classes failure.check can find the failure's exception to be of: an
\* exception class of the application can derive from both.
FailureClasses(failure) ==
    CASE failure = "CancelledError" -> {"CancelledError"}
      [] failure = "_DefGen_Return" -> {"_DefGen_Return"}
      [] failure = "CancelledDefGen" -> {"CancelledError", "_DefGen_Return"}
      [] OTHER -> {}

\* the checks with _DefGen_Return tested first
FailureBranch_DefGenFirst(failure) ==
    IF "_DefGen_Return" \in FailureClasses(failure) THEN "defgen"
    ELSE IF "CancelledError" \in FailureClasses(failure) THEN "cancelled"
    ELSE "unhandled"

\* failure.check(CancelledError) / failure.check(_DefGen_Return) / else
FailureBranch(failure) ==
    IF "CancelledError" \in FailureClasses(failure) THEN "cancelled"
    ELSE IF "_DefGen_Return" \in FailureClasses(failure) THEN "defgen"
    ELSE "unhandled"

\* on_failure, lines 281-313: rstr by the kind of failure
FailureBody(w, failure) ==
    CASE FailureBranch(failure) = "cancelled" -> [w EXCEPT !.ret = "Request was cancelled"]
      [] FailureBranch(failure) = "defgen" ->
            ErrorPage_render(log_err(w), INTERNAL_SERVER_ERROR, DEFGEN_BRIEF, FailureMessage(failure))
      [] OTHER ->
            ErrorPage_render(log_err(w), INTERNAL_SERVER_ERROR, "Unhandled Error",
                             <<"fq_name", "method_called", "file_path", "traceback">>
                                 \o FailureMessage(failure))

\* RestResource.on_failure
on_failure(w0, failure) ==
    Then(FailureBody([w0 EXCEPT !.onFail = @ + 1, !.branch = FailureBranch(failure),
                                !.failure = failure],
                     failure),
         LAMBDA w1 : IF w1.finished THEN w1 ELSE WriteAndFinish(w1, w1.ret))

\* what a callback finds and leaves of the request
Snapshot(w) ==
    [written |-> w.written, clen |-> w.clen, code |-> w.code, finished |-> w.finished,
     disconnected |-> w.disconnected, finishCalls |-> w.finishCalls]

\* the callback chain on a result that is not a failure: on_response, and
\* on_failure with what on_response raises
CallbackThenErrback(w, o) ==
    Bind(on_response(w, o), LAMBDA b :
        IF Raised(b) THEN on_failure([b EXCEPT !.exc = "none"], b.exc) ELSE b)

\* df.addCallback(self.on_response, request); df.addErrback(self.on_failure,
\* request), run on the Deferred's result.  An exception on_failure raises
\* stays in the Deferred.
RunCallbacks(w0, o) ==
    Bind([w0 EXCEPT !.before = Snapshot(w0)], LAMBDA w :
    Bind(CASE o.kind = "raise" -> on_failure(w, "Exception")
           [] o.kind = "raise_hi" -> on_failure(w, "Exception(0xFF)")
           [] o.kind = "defgen" -> on_failure(w, "_DefGen_Return")
           [] o.kind = "cancel" -> on_failure(w, "CancelledError")
           [] o.kind = "raise_both" -> on_failure(w, "CancelledDefGen")
           [] OTHER -> CallbackThenErrback(w, o),
         LAMBDA a : [a EXCEPT !.df = "fired", !.unhandled = @ \/ Raised(a), !.exc = "none",
                              !.after = Snapshot(a)]))

\* the Deferreds the waiting on_connection_closed errbacks hold
Cancelled(w) == {n.deferred : n \in w.notifiers}

\* deferred.cancel() called by each of the errbacks, on the Deferred it holds
Cancel(w) ==
    [w EXCEPT !.cancelled = @ \cup {[by |-> n.render, deferred |-> n.deferred] :
                                        n \in w.notifiers},
              !.notifiers = {}]

\* on_connection_closed with deferred.cancel() moved under the three known
\* reasons: any other reason cancels nothing
on_connection_closed_KnownReasons(w, reason) ==
    IF w.df = "pending" /\ w.dfId \in Cancelled(w) /\ reason # "other"
    THEN RunCallbacks(Cancel(w), Outcome("cancel", NoResource))
    ELSE Cancel(w)

\* RestResource.on_connection_closed: the reason only picks the log line;
\* deferred.cancel() errbacks a Deferred that has not fired with
\* CancelledError and does nothing to one that has.
on_connection_closed(w, reason) ==
    IF w.df = "pending" /\ w.dfId \in Cancelled(w)
    THEN RunCallbacks(Cancel(w), Outcome("cancel", NoResource))
    ELSE Cancel(w)

\* twisted.web.http.Request.connectionLost: _disconnected is set (finished is
\* not), the content is closed, the notifyFinish Deferreds errback.  Of the
\* registered on_connection_closed errbacks only the last holds a Deferred
\* that can still be pending.
Request_connectionLost(w, reason) ==
    IF w.notifications > 0
    THEN on_connection_closed(
             [w EXCEPT !.disconnected = TRUE, !.readable = FALSE, !.notifications = 0,
                       !.reason = reason, !.lostPending = (w.df = "pending")],
             reason)
    ELSE [w EXCEPT !.disconnected = TRUE, !.readable = FALSE,
                   !.reason = reason, !.lostPending = (w.df = "pending")]

\* ------------------------------------------------------------------ render
\* getattr(self, name, None)
GetAttr(self, name) == IF name \in AttrNames THEN self.attrs[name] ELSE "absent"

\* the truth value of an attribute: `if not method`
Truthy(kind) == kind \in {"func", "noncallable"}

\* _allowed_methods without its first element
allowed_methods_NoHead(self) ==
    {v \in Methods : GetAttr(self, PrefixedName(v)) = "func"}

\* RestResource._allowed_methods: HEAD, and the names prefixedMethodNames finds:
\* the rest_* attributes of the class that are functions.
allowed_methods(self) ==
    {"HEAD"} \cup {v \in Methods : GetAttr(self, PrefixedName(v)) = "func"}

\* render, lines 151-155: the payload of UnsupportedMethod
AllowedPayload(self) ==
    IF self.allowedMethods # NotDeclared THEN self.allowedMethods ELSE allowed_methods(self)

\* the resolution with the catch-all looked up first
ResolveName_CatchAllFirst(self, method) ==
    IF Truthy(GetAttr(self, REST_METHOD)) THEN REST_METHOD ELSE PrefixedName(method)

\* render, lines 142-146: the name of the attribute that handles the method
ResolveName(self, method) ==
    IF Truthy(GetAttr(self, PrefixedName(method))) THEN PrefixedName(method) ELSE REST_METHOD

\* what the handler hands back, given its arguments: a handler that echoes
\* returns its post argument (None when it has none)
Returned(o, call_args) ==
    IF o.kind = "echo"
    THEN Echo(IF Len(call_args) = 2 THEN call_args[2] ELSE NoneValue)
    ELSE o

\* the errback registered with the Deferred of the first render of the request
notifyFinish_addErrback_FirstDeferred(w, deferred) ==
    [w EXCEPT !.registered = @ + 1,
              !.notifications = IF w.finished \/ w.disconnected THEN @ ELSE @ + 1,
              !.notifiers = IF w.finished \/ w.disconnected THEN @
                            ELSE @ \cup {[render |-> w.renders, deferred |-> 1]}]

\* render, line 196: request.notifyFinish().addErrback(self.on_connection_closed,
\* df, request).  The errback holds the Deferred of this render; it is live
\* only while the request is neither finished nor disconnected.
notifyFinish_addErrback(w, deferred) ==
    [w EXCEPT !.registered = @ + 1,
              !.notifications = IF w.finished \/ w.disconnected THEN @ ELSE @ + 1,
              !.notifiers = IF w.finished \/ w.disconnected THEN @
                            ELSE @ \cup {[render |-> w.renders, deferred |-> deferred]}]

\* render returning the body when the handler's result is there at once
Dispatch_ReturnsBody(w0, o, call_args) ==
    Bind(IF o.kind = "deferred"
         THEN [w0 EXCEPT !.handlerCalls = @ + 1, !.callArgs = call_args, !.handed = o.kind,
                         !.invoked = @ + 1, !.dfId = w0.renders,
                         !.onResp = 0, !.onFail = 0, !.branch = "none", !.df = "pending"]
         ELSE RunCallbacks(
                  [w0 EXCEPT !.handlerCalls = @ + 1, !.callArgs = call_args,
                             !.handed = o.kind,
                             !.invoked = @ + 1, !.dfId = w0.renders,
                             !.onResp = 0, !.onFail = 0, !.branch = "none",
                             !.nested = IF IsResource(o) THEN @ + 1 ELSE @],
                  Returned(o, call_args)),
         LAMBDA w1 :
             [notifyFinish_addErrback(w1, w1.dfId)
                 EXCEPT !.ret = IF w1.finished THEN w1.clen ELSE "NOT_DONE_YET"])

\* render, lines 188-201: maybeDeferred(method, *call_args), the two callbacks,
\* and the notifyFinish errback, which is live only while the request is
\* neither finished nor disconnected.  o is what the handler does.
Dispatch(w0, o, call_args) ==
    Bind(IF o.kind = "deferred"
         THEN [w0 EXCEPT !.handlerCalls = @ + 1, !.callArgs = call_args, !.handed = o.kind,
                         !.invoked = @ + 1, !.dfId = w0.renders,
                         !.onResp = 0, !.onFail = 0, !.branch = "none", !.df = "pending"]
         ELSE RunCallbacks(
                  [w0 EXCEPT !.handlerCalls = @ + 1, !.callArgs = call_args,
                             !.handed = o.kind,
                             !.invoked = @ + 1, !.dfId = w0.renders,
                             !.onResp = 0, !.onFail = 0, !.branch = "none",
                             !.nested = IF IsResource(o) THEN @ + 1 ELSE @],
                  Returned(o, call_args)),
         LAMBDA w1 :
             [notifyFinish_addErrback(w1, w1.dfId) EXCEPT !.ret = "NOT_DONE_YET"])

\* the body intake done for POST alone
ReadBodyAndDispatch_PostOnly(w, o) ==
    IF w.method # "POST"
    THEN Dispatch(w, o, <<<<"request">>>>)
    ELSE IF ~w.readable
    THEN ErrorPage_render(log_err(w), BAD_REQUEST, "Malformed HTTP BODY", <<"traceback">>)
    ELSE Bind(Resource_format_post(w.resource, w, IF w.contentRead THEN <<>> ELSE w.content),
              LAMBDA post :
             IF post.exc # "none"
             THEN ErrorPage_render(log_err([w EXCEPT !.contentRead = TRUE]), BAD_REQUEST,
                                   "Malformed HTTP BODY", <<"traceback">> \o post.msg)
             ELSE Dispatch([w EXCEPT !.contentRead = TRUE], o,
                           <<<<"request">>, post.value>>))

\* render, lines 164-185 and on: the body of a POST or PUT is read and decoded;
\* either failing gives the 400 envelope; then the handler is called
ReadBodyAndDispatch(w, o) ==
    IF w.method \notin {"POST", "PUT"}
    THEN Dispatch(w, o, <<<<"request">>>>)
    ELSE IF ~w.readable
    THEN ErrorPage_render(log_err(w), BAD_REQUEST, "Malformed HTTP BODY", <<"traceback">>)
    ELSE Bind(Resource_format_post(w.resource, w, IF w.contentRead THEN <<>> ELSE w.content),
              LAMBDA post :
             IF post.exc # "none"
             THEN ErrorPage_render(log_err([w EXCEPT !.contentRead = TRUE]), BAD_REQUEST,
                                   "Malformed HTTP BODY", <<"traceback">> \o post.msg)
             ELSE Dispatch([w EXCEPT !.contentRead = TRUE], o,
                           <<<<"request">>, post.value>>))

\* render, lines 141-162: the handler is resolved
ResolveAndDispatch(w, self, o) ==
    IF ~Truthy(GetAttr(self, ResolveName(self, w.method)))
    THEN [Raise(w, "UnsupportedMethod") EXCEPT !.payload = AllowedPayload(self),
                                              !.raised405 = TRUE]
    ELSE IF GetAttr(self, ResolveName(self, w.method)) # "func"
    THEN ErrorPage_render(log_err(w), INTERNAL_SERVER_ERROR, "Resource Error",
                          <<"fq_name", "method_called">>)
    ELSE ReadBodyAndDispatch([w EXCEPT !.method_called = ResolveName(self, w.method)], o)

\* self.ACCEPT
Class_ACCEPT(self) ==
    IF FormatClass(self.cls).name = "XmlResource" THEN Xml_ACCEPT_HEADER ELSE ACCEPT_HEADER

\* self.CONTENT_TYPE % self.encoding
Class_CONTENT_TYPE(self) ==
    IF FormatClass(self.cls).name = "XmlResource" THEN Xml_CONTENT_TYPE_HEADER(self.encoding)
    ELSE CONTENT_TYPE_HEADER(self.encoding)

\* RestResource.render; renderRet keeps what it returned
render(w, o) ==
    Bind(ResolveAndDispatch(
             [w EXCEPT !.started = TRUE, !.recursion = 0,
                       !.renders = @ + 1, !.invoked = 0, !.registered = 0,
                       !.accept = Class_ACCEPT(w.resource),
                       !.ctype = Class_CONTENT_TYPE(w.resource)],
             w.resource, o),
         LAMBDA r : [r EXCEPT !.renderRet = IF Raised(r) THEN "raised" ELSE r.ret])

\* resrc.render(request) for either kind of resource
Resource_render(w, o) ==
    IF w.resource.kind = "rest" THEN render(w, o) ELSE [w EXCEPT !.ret = "plain"]

\* ------------------------------------------------- twisted.web.server.Request
\* the end of Request.render: a body that is not NOT_DONE_YET is written
\* (not for HEAD) and the request finished
Request_finalize(w) ==
    IF w.ret = "NOT_DONE_YET" THEN w
    ELSE IF w.method = "HEAD" THEN WriteAndFinish([w EXCEPT !.clen = w.ret], "")
    ELSE WriteAndFinish([w EXCEPT !.clen = w.ret], w.ret)

\* twisted.web.resource.ErrorPage(code, brief, ...).render(request)
Twisted_ErrorPage(w, status, brief) ==
    [w EXCEPT !.code = status, !.ctype = <<"text/html; charset=", "utf-8">>, !.ret = brief]

\* Request.render's except UnsupportedMethod: a HEAD whose allowedMethods hold
\* GET is rendered again as a GET and finished with an empty body; GET, HEAD
\* and POST get 405 with the Allow header; any other method 501.
Request_unsupported(u, o) ==
    IF u.method = "HEAD" /\ "GET" \in u.payload
    THEN Then(Resource_render([u EXCEPT !.method = "GET"], o), LAMBDA g :
             WriteAndFinish([g EXCEPT !.method = "HEAD",
                                      !.clen = IF g.ret = "NOT_DONE_YET" THEN @ ELSE g.ret],
                            ""))
    ELSE IF u.method \in {"GET", "HEAD", "POST"}
    THEN Request_finalize(
             Twisted_ErrorPage([u EXCEPT !.allow = u.payload], 405, "Method Not Allowed"))
    ELSE Request_finalize(Twisted_ErrorPage(u, 501, "Huh?"))

\* twisted.web.server.Request.render(resrc)
Request_render(w, resrc, o) ==
    Bind(Resource_render([w EXCEPT !.resource = resrc], o), LAMBDA r :
        IF r.exc = "UnsupportedMethod" THEN Request_unsupported([r EXCEPT !.exc = "none"], o)
        ELSE IF Raised(r) THEN r
        ELSE Request_finalize(r))

\* twisted.web.server.Request.processingFailed
Request_processingFailed(w) ==
    WriteAndFinish(log_err([w EXCEPT !.code = INTERNAL_SERVER_ERROR,
                                     !.ctype = <<"text/html", "">>,
                                     !.clen = "Processing Failed",
                                     !.failed = TRUE]),
                   "Processing Failed")

\* twisted.web.server.Request.process: render the resource; an exception out
\* of render goes to processingFailed.
Request_process(w, o) ==
    Bind(Request_render(w, w.resource, o), LAMBDA r :
        IF Raised(r) THEN Request_processingFailed([r EXCEPT !.exc = "none"]) ELSE r)

\* twisted.web.server.Request.process for an error page put in the resource
\* tree: its render gives the body, which is written and the request finished
Request_processPage(w, p) ==
    Bind(Then(Page_render(w, p), Request_finalize), LAMBDA r :
        IF Raised(r) THEN Request_processingFailed([r EXCEPT !.exc = "none"]) ELSE r)

\* ------------------------------------------------------------------- state
VARIABLES
    resource,       \* the resource being rendered (self)
    request,        \* the twisted Request and the attributes render puts on it
    df,             \* the handler Deferred of the latest dispatch: none, pending, fired
    notifications,  \* the on_connection_closed errbacks waiting on notifyFinish()
    delayed,        \* reactor.callLater(0, request.render, response): the resource queued
    phase,          \* "received" until Request.process has run
    connLost,       \* the client's connection is gone
    trace,          \* history the properties read
    page,           \* an error page the application built itself, served as the resource
    peer            \* a second request on the same resource instance, as its last event left it

vars == <<resource, request, df, notifications, delayed, phase, connLost, trace, page, peer>>

RequestFields == DOMAIN request

TraceFields == DOMAIN trace

World ==
    request @@ trace @@
    [resource |-> resource, df |-> df, notifications |-> notifications,
     delayed |-> delayed, exc |-> "none", ret |-> "none"]

\* The next state is the world w; an exception that leaves the reactor event is
\* logged by the reactor and recorded in trace.escaped.
Commit(v) ==
    \E w \in {[v EXCEPT !.escaped = IF v.exc # "none" THEN v.exc ELSE @]} :
       /\ resource' = w.resource
       /\ request' = [f \in RequestFields |-> w[f]]
       /\ trace' = [f \in TraceFields |-> w[f]]
       /\ df' = w.df
       /\ notifications' = w.notifications
       /\ delayed' = w.delayed

NewRequest(method, content, readable, displayTracebacks) ==
    [method |-> method, content |-> content, readable |-> readable,
     displayTracebacks |-> displayTracebacks,
     contentType |-> NoHeader, args |-> Value("args", <<>>),
     contentRead |-> FALSE, started |-> FALSE, recursion |-> -1,
     method_called |-> "none", finished |-> FALSE, disconnected |-> FALSE,
     code |-> 200, accept |-> "unset", ctype |-> <<"unset", "">>, clen |-> "unset",
     allow |-> {}, written |-> <<>>, finishCalls |-> 0]

NewTrace(method) ==
    [reqMethod |-> method, handlerCalls |-> 0, callArgs |-> <<>>, nested |-> 0,
     onResp |-> 0, onFail |-> 0, branch |-> "none", unhandled |-> FALSE,
     escaped |-> "none", failed |-> FALSE, raised405 |-> FALSE, payload |-> {},
     lostPending |-> FALSE, reason |-> "none",
     renders |-> 0, invoked |-> 0, registered |-> 0, dfId |-> 0,
     notifiers |-> {}, cancelled |-> {},
     logged |-> 0, queued |-> 0, renderRet |-> "none", handed |-> "none", respKind |-> "none", formatCalls |-> 0, body |-> <<>>,
     envelope |-> NoEnvelope,
     failure |-> "none",
     before |-> Snapshot(NewRequest(method, <<>>, TRUE, TRUE)),
     after |-> Snapshot(NewRequest(method, <<>>, TRUE, TRUE))]

\* no second request
NoPeer == [phase |-> "none"]

\* A request arrives for a resource of `classes`, with a method of `methods`;
\* POST and PUT carry a body of `bodies`, or a content whose read() raises
\* (not readable).  The site shows tracebacks or not.
InitWith(classes, methods, bodies, readables, sites) ==
    /\ resource \in classes
    /\ \E m \in methods :
          /\ request \in
                {NewRequest(m, b, TRUE, s) :
                    b \in (IF m \in {"POST", "PUT"} THEN bodies ELSE {<<>>}), s \in sites}
                  \cup {NewRequest(m, <<>>, r, s) :
                           r \in (IF m \in {"POST", "PUT"} THEN readables ELSE {TRUE}),
                           s \in sites}
          /\ trace = NewTrace(m)
    /\ df = "none"
    /\ notifications = 0
    /\ delayed = NoResource
    /\ phase = "received"
    /\ connLost = FALSE
    /\ page = NoPage
    /\ peer = NoPeer

\* What the handlers of the application do, nested resources taken from `classes`
Outcomes(kinds, classes) ==
    {Outcome(k, NoResource) : k \in kinds \ {"rest", "plain"}}
      \cup (IF "rest" \in kinds THEN {Outcome("rest", c) : c \in classes} ELSE {})
      \cup (IF "plain" \in kinds THEN {Outcome("plain", PlainResource)} ELSE {})

OutcomeKinds ==
    {"value", "nan", "int", "rest", "plain", "raise", "raise_hi", "defgen", "raise_both",
     "deferred"}

\* A handler hands back another resource at most MaxChain times per request.
WithinChain(o) == IsResource(o) => trace.nested < MaxChain

\* ----------------------------------------------------------------- actions
\* The server processes the request: Request.process
Process(o) ==
    /\ phase = "received"
    /\ WithinChain(o)
    /\ page = NoPage
    /\ phase' = "processing"
    /\ Commit(Request_process(World, o))
    /\ UNCHANGED <<connLost, page, peer>>

\* The reactor runs the callLater of on_response: request.render(response)
NestedRender(o) ==
    /\ delayed # NoResource
    /\ WithinChain(o)
    /\ Commit(Request_render([World EXCEPT !.delayed = NoResource], delayed, o))
    /\ UNCHANGED <<phase, connLost, page, peer>>

\* The Deferred a handler returned fires with o
DeferredFires(o) ==
    /\ df = "pending"
    /\ o.kind # "deferred"
    /\ WithinChain(o)
    /\ Commit(RunCallbacks([World EXCEPT !.nested = IF IsResource(o) THEN @ + 1 ELSE @,
                                         !.handed = o.kind],
                           Returned(o, trace.callArgs)))
    /\ UNCHANGED <<phase, connLost, page, peer>>

\* The client's connection is lost.  A finished request is no longer attached
\* to the channel and is not told.
ConnectionLost(reason) ==
    /\ phase = "processing"
    /\ ~connLost
    /\ connLost' = TRUE
    /\ IF request.finished
       THEN UNCHANGED <<resource, request, df, notifications, delayed, trace>>
       ELSE Commit(Request_connectionLost(World, reason))
    /\ UNCHANGED <<phase, page, peer>>

\* ---------------------------------------------------------- specifications
\* The lifecycle of one request: every handler behaviour, chains of nested
\* resources, the connection lost at any point.
LifecycleClasses ==
    {c \in RestClasses({"absent", "func"}) :
        /\ c.allowedMethods = NotDeclared
        /\ c.attrs["rest_HEAD"] = "absent"
        /\ c.encoding = DEFAULT_ENCODING}

LifecycleOutcomes == Outcomes(OutcomeKinds, LifecycleClasses)

Init == InitWith(LifecycleClasses, {"GET", "HEAD", "POST"}, Bodies, {TRUE}, BOOLEAN)

Next ==
    \/ \E o \in LifecycleOutcomes : Process(o)
    \/ \E o \in LifecycleOutcomes : NestedRender(o)
    \/ \E o \in LifecycleOutcomes : DeferredFires(o)
    \/ \E reason \in Reasons : ConnectionLost(reason)

Spec == Init /\ [][Next]_vars

\* Handler resolution and body intake: every class shape, method and body,
\* with handlers that return a value or raise at once.
DispatchOutcomes == Outcomes({"value", "raise"}, {})

InitDispatch == InitWith(RestClasses(Kinds), Methods, Bodies, BOOLEAN, {TRUE})

NextDispatch ==
    \/ \E o \in DispatchOutcomes : Process(o)
    \/ \E reason \in Reasons : ConnectionLost(reason)

SpecDispatch == InitDispatch /\ [][NextDispatch]_vars


\* The error pages on their own: a page of either format built by the
\* application (log as given), rendered for a request.
PageDetails == {<<"secret">>, <<"other">>, <<"secret", "hi">>}

Pages ==
    [format : {"json", "xml"}, status : {BAD_REQUEST, INTERNAL_SERVER_ERROR},
     brief : {"Server Error"}, detail : PageDetails, log : BOOLEAN]

InitErrorPage ==
    /\ page \in Pages
    /\ resource = NoResource
    /\ \E m \in {"GET", "HEAD"} :
          /\ request \in {NewRequest(m, <<>>, TRUE, s) : s \in BOOLEAN}
          /\ trace = NewTrace(m)
    /\ df = "none"
    /\ notifications = 0
    /\ delayed = NoResource
    /\ phase = "received"
    /\ connLost = FALSE
    /\ peer = NoPeer

\* The server processes the request for the page
RenderErrorPage ==
    /\ phase = "received"
    /\ page # NoPage
    /\ phase' = "processing"
    /\ Commit(Request_processPage(World, page))
    /\ UNCHANGED <<connLost, page, peer>>

NextErrorPage == RenderErrorPage

SpecErrorPage == InitErrorPage /\ [][NextErrorPage]_vars

\* The formats and the mixins: a POST or PUT, with any body and Content-Type,
\* to a resource of a class of either format, plain or decorated with one
\* mixin, whose handler returns at once.
XmlBodies == SeqsUpTo(XmlBytes, MaxBody + 1)

\* a body longer than the excerpt of _format_post's error
LongBody == [i \in 1..(EXCERPT_LEN + 1) |-> "x"]

FormatBodies == Bodies \cup XmlBodies \cup {LongBody}

FormatBases == {JsonResource, XmlResource}

FormatClasses ==
    [kind : {"rest"},
     attrs : {[NoAttrs EXCEPT !["rest"] = "func"]},
     allowedMethods : {NotDeclared},
     encoding : Encodings,
     cls : {Subclass(b) : b \in FormatBases}
             \cup {ResourceMixin_mixin(m, Subclass(b)) : m \in Mixins, b \in FormatBases}]

FormatOutcomes == Outcomes({"echo", "value", "element", "str", "unicode", "none"}, {})

InitFormat ==
    /\ resource \in FormatClasses
    /\ \E m \in {"POST", "PUT"}, b \in FormatBodies, ct \in ContentTypes :
          /\ request = [NewRequest(m, b, TRUE, TRUE) EXCEPT !.contentType = ct]
          /\ trace = NewTrace(m)
    /\ df = "none"
    /\ notifications = 0
    /\ delayed = NoResource
    /\ phase = "received"
    /\ connLost = FALSE
    /\ page = NoPage
    /\ peer = NoPeer

NextFormat == \E o \in FormatOutcomes : Process(o)

SpecFormat == InitFormat /\ [][NextFormat]_vars

\* Chains without end: the steps of the lifecycle with no bound on the nested
\* resources the handlers return.  What only counts the history (handlers
\* called, resources returned and queued, errbacks registered) is kept up to
\* MaxChain, so that a chain that goes on for ever is a cycle of states.
Min(a, b) == IF a < b THEN a ELSE b

Saturated(w) ==
    [w EXCEPT !.nested = Min(@, MaxChain), !.handlerCalls = Min(@, MaxChain),
              !.queued = Min(@, MaxChain), !.notifications = Min(@, MaxChain),
              !.renders = Min(@, MaxChain), !.dfId = Min(@, MaxChain),
              !.notifiers = {[render |-> Min(n.render, MaxChain),
                              deferred |-> Min(n.deferred, MaxChain)] : n \in @}]

ProcessUnbounded(o) ==
    /\ phase = "received"
    /\ page = NoPage
    /\ phase' = "processing"
    /\ Commit(Saturated(Request_process(World, o)))
    /\ UNCHANGED <<connLost, page, peer>>

NestedRenderUnbounded(o) ==
    /\ delayed # NoResource
    /\ Commit(Saturated(Request_render([World EXCEPT !.delayed = NoResource], delayed, o)))
    /\ UNCHANGED <<phase, connLost, page, peer>>

DeferredFiresUnbounded(o) ==
    /\ df = "pending"
    /\ o.kind # "deferred"
    /\ Commit(Saturated(
           RunCallbacks([World EXCEPT !.nested = IF IsResource(o) THEN @ + 1 ELSE @,
                                      !.handed = o.kind],
                        Returned(o, trace.callArgs))))
    /\ UNCHANGED <<phase, connLost, page, peer>>

\* handlers that complete: with a value, a nested resource, a failure, or a
\* Deferred that fires with one of these
LiveClasses == {c \in LifecycleClasses : c.attrs["rest"] = "absent"}

LiveOutcomes == Outcomes({"value", "rest", "raise", "deferred"}, LiveClasses)

InitLive == InitWith(LiveClasses, {"GET", "POST"}, {<<"{", "}">>}, {TRUE}, {TRUE})

NextLive ==
    \/ \E o \in LiveOutcomes : ProcessUnbounded(o)
    \/ \E o \in LiveOutcomes : NestedRenderUnbounded(o)
    \/ \E o \in LiveOutcomes : DeferredFiresUnbounded(o)
    \/ \E reason \in Reasons : ConnectionLost(reason)

\* The reactor runs what is queued (the request, a callLater) and every
\* Deferred a handler returned fires; the client may stay connected for ever.
SpecLive ==
    /\ InitLive
    /\ [][NextLive]_vars
    /\ WF_vars(\E o \in LiveOutcomes : ProcessUnbounded(o))
    /\ WF_vars(\E o \in LiveOutcomes : NestedRenderUnbounded(o))
    /\ WF_vars(\E o \in LiveOutcomes : DeferredFiresUnbounded(o))

\* Two requests on one resource instance.  What render and the callbacks keep
\* for a request is on the request object (started, recursion, method_called,
\* finished, the content), in locals of render (df) and in the arguments the
\* callbacks were added with (request, df): Own is all of it, with what the
\* server holds for the request.  self is shared.
Own ==
    [request |-> request, df |-> df, notifications |-> notifications,
     delayed |-> delayed, phase |-> phase, connLost |-> connLost, trace |-> trace]

\* the handler's Deferred kept where both requests find it (self.df)
Resume_DeferredOnSelf(own) ==
    /\ request' = own.request
    /\ df' = df
    /\ notifications' = own.notifications
    /\ delayed' = own.delayed
    /\ phase' = own.phase
    /\ connLost' = own.connLost
    /\ trace' = own.trace

\* the reactor's next event is for the request `own`: render and the
\* callbacks get that request and its Deferred as arguments
Resume(own) ==
    /\ request' = own.request
    /\ df' = own.df
    /\ notifications' = own.notifications
    /\ delayed' = own.delayed
    /\ phase' = own.phase
    /\ connLost' = own.connLost
    /\ trace' = own.trace

\* The reactor turns from one request to the other
Switch ==
    /\ peer # NoPeer
    /\ peer' = Own
    /\ Resume(peer)
    /\ UNCHANGED <<resource, page>>

SharedOutcomes == Outcomes({"value", "raise", "deferred"}, {})

SharedRequests ==
    {[request |-> NewRequest(m, b, TRUE, TRUE), df |-> "none", notifications |-> 0,
      delayed |-> NoResource, phase |-> "received", connLost |-> FALSE,
      trace |-> NewTrace(m)] :
        m \in {"GET", "POST"}, b \in {<<"{", "}">>}}

InitShared ==
    /\ resource \in LiveClasses
    /\ \E own \in SharedRequests :
          /\ request = own.request
          /\ df = own.df
          /\ notifications = own.notifications
          /\ delayed = own.delayed
          /\ phase = own.phase
          /\ connLost = own.connLost
          /\ trace = own.trace
    /\ page = NoPage
    /\ peer \in SharedRequests

NextShared ==
    \/ \E o \in SharedOutcomes : Process(o)
    \/ \E o \in SharedOutcomes : DeferredFires(o)
    \/ \E reason \in Reasons : ConnectionLost(reason)
    \/ Switch

SpecShared == InitShared /\ [][NextShared]_vars

\* Construction: RestResource.__init__ for a class that declares some of the
\* attributes a format has to define, with an encoding.
SUBCLASS_ATTRS == <<"ACCEPT", "CONTENT_TYPE", "HANDLE_TYPES", "ERROR_CLASS">>

\* the encodings codecs.lookup knows and others
ConstructEncodings == Encodings \cup {"ascii", "bad-encoding", ""}

\* codecs.lookup(encoding)
codecs_lookup(encoding) ==
    IF encoding \in Encodings \cup {"ascii"} THEN "none" ELSE "LookupError"

\* template % args, for a template with `slots` conversions %s: the number of
\* arguments has to be the number of conversions
PercentFormat(slots, args) ==
    IF Len(args) = slots
    THEN [exc |-> "none", text |-> args]
    ELSE [exc |-> "TypeError", text |-> <<"not enough arguments for format string">>]

\* the first of SUBCLASS_ATTRS for which hasattr(self, attr) is false, 0 if none
FirstMissing(declared) ==
    IF \A i \in 1..Len(SUBCLASS_ATTRS) : SUBCLASS_ATTRS[i] \in declared THEN 0
    ELSE CHOOSE i \in 1..Len(SUBCLASS_ATTRS) :
             /\ SUBCLASS_ATTRS[i] \notin declared
             /\ \A j \in 1..(i - 1) : SUBCLASS_ATTRS[j] \in declared

NotConstructed == [exc |-> "none", args |-> <<>>, self |-> NoResource]

\* RestResource.__init__(self, encoding): codecs.lookup raises LookupError for
\* an unknown encoding; for a missing attribute the message is formatted with
\* '%s must implement the class attribute %s' % (self.__class__.__name__), a
\* template of two conversions and one argument, attr being the second
\* argument of ValueError: the formatting raises before ValueError is built.
RestResource_init(class, encoding) ==
    IF codecs_lookup(encoding) # "none"
    THEN [exc |-> "LookupError", args |-> <<"unknown encoding: ", encoding>>,
          self |-> NoResource]
    ELSE IF FirstMissing(class.declared) = 0
    THEN [exc |-> "none", args |-> <<>>,
          self |-> [kind |-> "rest", attrs |-> NoAttrs, allowedMethods |-> NotDeclared,
                    encoding |-> encoding, cls |-> Subclass(JsonResource)]]
    ELSE Bind(PercentFormat(2, <<class.name>>), LAMBDA message :
             IF message.exc # "none"
             THEN [exc |-> message.exc, args |-> message.text, self |-> NoResource]
             ELSE [exc |-> "ValueError",
                   args |-> <<message.text,
                              SUBCLASS_ATTRS[FirstMissing(class.declared)]>>,
                   self |-> NoResource])

\* the classes: any of the four attributes declared or not
ConstructClasses ==
    [name : {"MyResource"},
     declared : SUBSET {SUBCLASS_ATTRS[i] : i \in 1..Len(SUBCLASS_ATTRS)}]

InitConstruct ==
    /\ resource \in [class : ConstructClasses, encoding : ConstructEncodings]
    /\ trace = NotConstructed
    /\ request = NewRequest("GET", <<>>, TRUE, TRUE)
    /\ df = "none"
    /\ notifications = 0
    /\ delayed = NoResource
    /\ phase = "class"
    /\ connLost = FALSE
    /\ page = NoPage
    /\ peer = NoPeer

\* the application constructs the resource
Construct ==
    /\ phase = "class"
    /\ phase' = "constructed"
    /\ trace' = RestResource_init(resource.class, resource.encoding)
    /\ UNCHANGED <<resource, request, df, notifications, delayed, connLost, page, peer>>

NextConstruct == Construct

SpecConstruct == InitConstruct /\ [][NextConstruct]_vars

\* The mixins and inheritance: a POST or PUT to a resource whose class is
\* decorated with a mixin, or derives from a class that is.
DecoratedClasses == {ResourceMixin_mixin(m, Subclass(b)) : m \in Mixins, b \in FormatBases}

MixinClasses ==
    [kind : {"rest"},
     attrs : {[NoAttrs EXCEPT !["rest"] = "func"]},
     allowedMethods : {NotDeclared},
     encoding : {DEFAULT_ENCODING},
     cls : DecoratedClasses \cup {Subclass(d) : d \in DecoratedClasses}]

InitMixin ==
    /\ resource \in MixinClasses
    /\ \E m \in {"POST", "PUT"}, b \in FormatBodies, ct \in ContentTypes :
          /\ request = [NewRequest(m, b, TRUE, TRUE) EXCEPT !.contentType = ct]
          /\ trace = NewTrace(m)
    /\ df = "none"
    /\ notifications = 0
    /\ delayed = NoResource
    /\ phase = "received"
    /\ connLost = FALSE
    /\ page = NoPage
    /\ peer = NoPeer

NextMixin == \E o \in FormatOutcomes : Process(o)

SpecMixin == InitMixin /\ [][NextMixin]_vars

\* ------------------------------------------------------------------ claims
\* the verbs for which the class of the resource defines a rest_<VERB> function
HandlerVerbs ==
    {v \in Methods : PrefixedName(v) \in AttrNames /\ resource.attrs[PrefixedName(v)] = "func"}

\* the headers and the status of the response
ResponseHead(rq) == <<rq.code, rq.accept, rq.ctype, rq.clen, rq.allow>>

\* C1: for every interleaving of handler completion with a client disconnect,
\* request.write is called at most once and request.finish() at most once.
C1_WrittenAndFinishedOnce ==
    Len(request.written) <= 1 /\ request.finishCalls <= 1

\* C2: once a chain has returned RECURSION_DEPTH nested resources the request
\* is failed with a 500 and no further resource is queued for rendering.
C2_ChainStopsAtBound ==
    trace.nested >= RECURSION_DEPTH =>
        /\ delayed = NoResource
        /\ request.code = INTERNAL_SERVER_ERROR
        /\ trace.handlerCalls <= RECURSION_DEPTH

\* C3: when the connection is lost while the handler's Deferred is pending, no
\* write and no finish() is attempted afterwards.
C3_NoWriteAfterDisconnect ==
    trace.lostPending => request.written = <<>> /\ request.finishCalls = 0

\* C4: when request.finished is already set as the handler's Deferred fires,
\* on_response / on_failure change nothing: no write, no finish(), the status
\* code and the headers stay as they are.
C4_FinishedIsNoOp ==
    [][(request.finished /\ df = "pending" /\ df' = "fired") =>
          /\ request'.written = request.written
          /\ request'.finishCalls = request.finishCalls
          /\ ResponseHead(request') = ResponseHead(request)]_vars

\* C5: per dispatch, on_response and on_failure each run at most once and
\* never both.
C5_CallbacksExclusive ==
    /\ trace.onResp <= 1
    /\ trace.onFail <= 1
    /\ ~(trace.onResp >= 1 /\ trace.onFail >= 1)

\* C6: whatever the reason, a connection lost while the handler's Deferred is
\* pending cancels that Deferred, and the cancellation runs on_failure, once,
\* in its CancelledError branch, and never on_response.
C6_CancelReachesOnFailure ==
    trace.lostPending =>
        /\ df = "fired"
        /\ trace.branch = "cancelled"
        /\ trace.onFail = 1
        /\ trace.onResp = 0

\* C6 witness: the connection was lost for a reason that is none of the three
\* named ones while the Deferred was pending, and on_failure took the
\* cancellation branch.
C6_Witness ==
    trace.lostPending /\ trace.reason = "other" /\ trace.branch = "cancelled"

\* C7: once render has started the request, request.recursion never decreases
\* (it is never reset).
C7_RecursionNeverReset ==
    [][request.started => request'.recursion >= request.recursion]_vars

\* C8: a HEAD request to a resource without rest_HEAD invokes no handler and
\* gets an empty body.
C8_HeadInvokesNoHandler ==
    (phase = "processing" /\ trace.reqMethod = "HEAD"
       /\ resource.attrs["rest_HEAD"] = "absent") =>
        /\ trace.handlerCalls = 0
        /\ request.method_called = "none"
        /\ request.written = <<"">>

C10_MalformedBodyIs400 ==
    (/\ phase = "processing"
     /\ ~connLost
     /\ trace.reqMethod \in {"POST", "PUT"}
     /\ GetAttr(resource, ResolveName(resource, trace.reqMethod)) = "func"
     /\ (~request.readable \/ format_post(request.content).exc # "none")) =>
        /\ request.code = BAD_REQUEST
        /\ request.written = <<"Malformed HTTP BODY">>
        /\ trace.handlerCalls = 0

\* C11: render picks rest_<METHOD> whenever that handler exists, the catch-all
\* rest only when the class has no rest_<METHOD> (an attribute holding None or
\* another false value is no handler), raises UnsupportedMethod without
\* invoking a handler when it has neither, and request.method_called names
\* the handler that is invoked.
C11_HandlerResolution ==
    phase = "processing" =>
        /\ GetAttr(resource, PrefixedName(trace.reqMethod)) = "func" =>
               request.method_called = PrefixedName(trace.reqMethod)
        /\ request.method_called = REST_METHOD =>
               /\ GetAttr(resource, PrefixedName(trace.reqMethod)) \in {"absent", "falsy"}
               /\ resource.attrs[REST_METHOD] = "func"
        /\ (/\ GetAttr(resource, PrefixedName(trace.reqMethod)) = "absent"
            /\ resource.attrs[REST_METHOD] = "func") =>
               request.method_called = REST_METHOD
        /\ (/\ GetAttr(resource, PrefixedName(trace.reqMethod)) = "absent"
            /\ resource.attrs[REST_METHOD] = "absent") =>
               /\ trace.raised405
               /\ trace.reqMethod # "HEAD" =>
                      trace.handlerCalls = 0 /\ request.method_called = "none"
        /\ trace.handlerCalls >= 1 =>
               /\ request.method_called \in AttrNames
               /\ resource.attrs[request.method_called] = "func"

\* C11 witness: a POST to a class with a catch-all rest and no rest_POST was
\* handled by rest.
C11_Witness ==
    /\ trace.reqMethod = "POST"
    /\ resource.attrs["rest_POST"] = "absent"
    /\ resource.attrs[REST_METHOD] = "func"
    /\ trace.handlerCalls = 1
    /\ request.method_called = REST_METHOD

\* C12: when the attribute resolved for the verb is there but is not callable,
\* whatever its value, the answer is the 500 "Resource Error" envelope, no
\* handler is invoked and UnsupportedMethod is not raised.
C12_NonCallableIs500 ==
    (phase = "processing"
       /\ GetAttr(resource,
                  IF GetAttr(resource, PrefixedName(trace.reqMethod)) # "absent"
                  THEN PrefixedName(trace.reqMethod)
                  ELSE REST_METHOD) \in {"noncallable", "falsy"}) =>
        /\ request.code = INTERNAL_SERVER_ERROR
        /\ request.written =
              <<IF trace.reqMethod = "HEAD" THEN "" ELSE "Resource Error">>
        /\ trace.handlerCalls = 0
        /\ ~trace.raised405

\* C13: a handler value of a HANDLE_TYPES type that encodes, reaching
\* on_response on a request that is neither finished nor disconnected, is
\* written as exactly the bytes _format_response returned, with Content-Length
\* taken from those bytes, the status left at 200, and the request finished,
\* once; on_failure does not run.
C13_EncodedValueWritten ==
    (trace.respKind = "value" /\ ~trace.before.finished /\ ~trace.before.disconnected) =>
        /\ trace.after.written =
              Append(trace.before.written, format_response(Outcome("value", NoResource)).bytes)
        /\ trace.after.clen = trace.after.written[Len(trace.after.written)]
        /\ trace.after.code = 200
        /\ trace.after.finished
        /\ trace.after.finishCalls = trace.before.finishCalls + 1
        /\ trace.formatCalls = 1
        /\ trace.onFail = 0

\* C13 witness: the Deferred of a POST handler fired with a dict and the
\* encoded bytes are the one thing written.
C13_Witness ==
    /\ trace.respKind = "value"
    /\ trace.reqMethod = "POST"
    /\ ~trace.before.finished
    /\ ~trace.before.disconnected
    /\ request.finished
    /\ request.written = <<"encoded">>
    /\ request.clen = "encoded"

\* the parts of a text
Parts(text) == {text[i] : i \in 1..Len(text)}

\* C14: when a handler raises an exception that is no cancellation and no
\* _DefGen_Return (on a request neither finished nor disconnected), the 500
\* "Unhandled Error" envelope is written and the request finished, once; the
\* envelope's detail holds the exception's message when displayTracebacks is
\* set and is null when it is not.
C14_UnhandledErrorEnvelope ==
    (/\ trace.branch = "unhandled"
     /\ trace.onResp = 0
     /\ ~trace.before.finished
     /\ ~trace.before.disconnected) =>
        /\ trace.after.code = INTERNAL_SERVER_ERROR
        /\ trace.after.written = Append(trace.before.written, "Unhandled Error")
        /\ trace.after.finished
        /\ trace.after.finishCalls = trace.before.finishCalls + 1
        /\ trace.envelope.error = "Unhandled Error"
        /\ IF request.displayTracebacks
           THEN "boom" \in Parts(trace.envelope.detail)
           ELSE trace.envelope.detail = NullDetail

\* C15: for both error pages and either value of log, with displayTracebacks
\* off the rendered document does not hold the detail: it is null, and the
\* page with any other detail renders to the same document.
C15_DetailOnlyWithTracebacks ==
    (/\ phase = "processing"
     /\ page # NoPage
     /\ ~request.displayTracebacks
     /\ trace.envelope # NoEnvelope) =>
        /\ trace.envelope.detail = NullDetail
        /\ \A d \in PageDetails :
              Page_body([page EXCEPT !.detail = d], FALSE).exc = "none" =>
                 Page_body([page EXCEPT !.detail = d], FALSE) = trace.envelope

\* C16: for a _DefGen_Return failure answered with displayTracebacks off, the
\* document sent to the client names neither the resource's qualified name,
\* nor the handler, nor the source file.
C16_DefGenDiagnosticHidden ==
    (/\ trace.branch = "defgen"
     /\ ~request.displayTracebacks
     /\ ~trace.before.finished
     /\ ~trace.before.disconnected
     /\ trace.envelope.error \in Parts(request.written)) =>
        (BriefNames(trace.envelope.error) \cup Parts(trace.envelope.detail))
            \cap {"fq_name", "method_called", "file_path"} = {}

\* C17: a handler value that is neither of a HANDLE_TYPES type nor a Resource
\* (an integer), reaching on_response on a request neither finished nor
\* disconnected, is answered with the 500 envelope, written and finished once,
\* and is never given to _format_response.
C17_UnsupportedTypeIs500 ==
    (trace.respKind = "int" /\ ~trace.before.finished /\ ~trace.before.disconnected) =>
        /\ trace.after.code = INTERNAL_SERVER_ERROR
        /\ trace.after.written = Append(trace.before.written, "Resource Error")
        /\ trace.after.finished
        /\ trace.after.finishCalls = trace.before.finishCalls + 1
        /\ trace.formatCalls = 0
        /\ trace.onFail = 0

\* C17 witness: a handler returned an integer and the request ended with the
\* 500 "Resource Error" envelope.
C17_Witness ==
    /\ trace.respKind = "int"
    /\ ~trace.before.finished
    /\ ~trace.before.disconnected
    /\ request.finished
    /\ request.code = INTERNAL_SERVER_ERROR
    /\ request.written = <<"Resource Error">>
    /\ trace.envelope.error = "Resource Error"

\* C18: when _format_response raises on a value of a HANDLE_TYPES type (a dict
\* holding a non-finite float), on a request neither finished nor
\* disconnected, the 500 envelope is written in place of the value with
\* Content-Length taken from the envelope, the request is finished once, and
\* nothing of the value is written.
C18_EncodingFailureIs500 ==
    (trace.respKind = "nan" /\ ~trace.before.finished /\ ~trace.before.disconnected) =>
        /\ trace.after.code = INTERNAL_SERVER_ERROR
        /\ trace.after.written = Append(trace.before.written, "Resource Error")
        /\ trace.after.clen = "Resource Error"
        /\ trace.after.finished
        /\ trace.after.finishCalls = trace.before.finishCalls + 1
        /\ trace.formatCalls = 1
        /\ trace.onFail = 0

\* C18 witness: a handler returned a dict with a non-finite float and the
\* request ended with the 500 "Resource Error" envelope and its length.
C18_Witness ==
    /\ trace.respKind = "nan"
    /\ ~trace.before.finished
    /\ ~trace.before.disconnected
    /\ request.finished
    /\ request.code = INTERNAL_SERVER_ERROR
    /\ request.written = <<"Resource Error">>
    /\ request.clen = "Resource Error"

\* C19: the handler, verb-specific or catch-all, is called with (request) for
\* a method other than POST and PUT, the body not having been read, and with
\* (request, decodedBody) for POST and PUT, decodedBody being what _format_post
\* returns for the request's body.
C19_HandlerArguments ==
    trace.handlerCalls >= 1 =>
        IF trace.reqMethod \in {"POST", "PUT"}
        THEN /\ request.contentRead
             /\ format_post(request.content).exc = "none"
             /\ trace.callArgs = <<<<"request">>, format_post(request.content).value>>
        ELSE /\ ~request.contentRead
             /\ trace.callArgs = <<<<"request">>>>

\* C19 witness: a PUT with the body [] was handled by the catch-all rest, which
\* got the request and the decoded list.
C19_Witness ==
    /\ trace.reqMethod = "PUT"
    /\ request.method_called = REST_METHOD
    /\ trace.handlerCalls = 1
    /\ request.content = <<"[", "]">>
    /\ trace.callArgs = <<<<"request">>, Value("list", <<>>)>>

\* C20: every response of a resource carries Accept equal to the format's
\* ACCEPT and Content-Type equal to the format's CONTENT_TYPE with the
\* resource's encoding, on the success path and on the 400, 500 and 405 paths.
C20_FormatHeadersOnEveryResponse ==
    (phase = "processing" /\ request.finished) =>
        /\ request.accept = ACCEPT_HEADER
        /\ request.ctype = CONTENT_TYPE_HEADER(resource.encoding)

\* C21: for a resource of the JSON or the XML format class and every body its
\* _format_post accepts, _format_post returns the structured value of the
\* body, encoding that value with _format_response and decoding the bytes
\* again gives an equal value, and a handler that returns its decoded body
\* unchanged gets a 200 response whose bytes decode to that value.
C21_CodecRoundTrip ==
    (/\ phase = "processing"
     /\ resource.cls \in {Subclass(b) : b \in FormatBases}
     /\ Resource_format_post(resource, request, request.content).exc = "none") =>
        /\ Resource_format_post(resource, request, request.content).value =
              (IF resource.cls.base = XmlResource
               THEN etree_fromstring(request.content).value
               ELSE json_loads(request.content).value)
        /\ Resource_format_response(
               resource,
               Echo(Resource_format_post(resource, request, request.content).value)).exc
              = "none"
        /\ Resource_format_post(
               resource, request,
               Resource_format_response(
                   resource,
                   Echo(Resource_format_post(resource, request, request.content).value)).data)
              = Resource_format_post(resource, request, request.content)
        /\ (trace.handed = "echo") =>
              /\ request.code = 200
              /\ request.finished
              /\ request.written = <<"encoded">>
              /\ Resource_format_post(resource, request, trace.body)
                    = Resource_format_post(resource, request, request.content)

\* C22: on_failure takes the one branch its priority order gives: cancellation
\* for a CancelledError (also one that is a _DefGen_Return too), else
\* generator misuse for a _DefGen_Return, else unhandled error; and the
\* cancellation branch sets no status and builds no envelope: all it writes,
\* if anything, is "Request was cancelled".
C22_FailurePriority ==
    trace.onFail >= 1 =>
        /\ trace.branch =
              (IF "CancelledError" \in FailureClasses(trace.failure) THEN "cancelled"
               ELSE IF "_DefGen_Return" \in FailureClasses(trace.failure) THEN "defgen"
               ELSE "unhandled")
        /\ trace.branch = "cancelled" =>
              /\ trace.after.code = trace.before.code
              /\ trace.after.clen = trace.before.clen
              /\ trace.after.written \in
                    {trace.before.written,
                     Append(trace.before.written, "Request was cancelled")}

\* C22 witness: a handler's exception that is both a CancelledError and a
\* _DefGen_Return went to the cancellation branch, and the one thing written
\* is the message, the status staying 200.
C22_Witness ==
    /\ trace.failure = "CancelledDefGen"
    /\ trace.branch = "cancelled"
    /\ request.written = <<"Request was cancelled">>
    /\ request.code = 200
    /\ trace.envelope = NoEnvelope

\* C23: every step in which the response status becomes 500 (a handler that is
\* not callable, an encoding failure, an unsupported type, the recursion
\* limit, generator misuse, an unhandled exception) makes an entry in the
\* server's log, with displayTracebacks set or not.
C23_ServerErrorsLogged ==
    [][(request'.code = INTERNAL_SERVER_ERROR /\ request.code # INTERNAL_SERVER_ERROR) =>
          trace'.logged > trace.logged]_vars

\* C23 witness: on a site that shows no tracebacks a handler raised, the
\* request was answered 500 with a null detail, and the log has an entry.
C23_Witness ==
    /\ ~request.displayTracebacks
    /\ request.code = INTERNAL_SERVER_ERROR
    /\ trace.failure = "Exception"
    /\ trace.envelope.detail = NullDetail
    /\ trace.logged >= 1

\* C24: the step in which on_response receives a nested resource below the
\* bound ends with that resource queued (callLater) and not rendered:
\* on_response has written nothing and finished nothing and no second handler
\* has run; the step that takes the resource off the queue renders it, and a
\* handler result it gets at once goes through on_response or on_failure.
C24_NestedRenderedLater ==
    [][/\ trace'.queued > trace.queued =>
              /\ delayed' # NoResource
              /\ IsResource(delayed')
              /\ trace'.respKind = delayed'.kind
              /\ trace'.handlerCalls <= trace.handlerCalls + 1
              /\ trace'.after.written = trace'.before.written
              /\ ~trace'.after.finished
       /\ (delayed # NoResource /\ (delayed' # delayed \/ trace'.queued > trace.queued)) =>
              /\ resource' = delayed
              /\ (trace'.handlerCalls > trace.handlerCalls /\ df' = "fired") =>
                     trace'.onResp + trace'.onFail >= 1]_vars

\* C24 witness: a handler returned a nested RestResource, which was rendered
\* from the queue in a later step; its handler's dict went through on_response
\* and is the one thing written.
C24_Witness ==
    /\ trace.queued = 1
    /\ trace.handlerCalls = 2
    /\ delayed = NoResource
    /\ trace.onResp = 1
    /\ trace.respKind = "value"
    /\ request.written = <<"encoded">>
    /\ request.finished

\* C25: for either format class and every body that does not begin with the
\* format's token (JSON: the first byte after white space is { or [; XML: the
\* body after white space starts with <?xml), the empty and the white-space
\* body included, _format_post raises the descriptive ValueError of its first
\* test, which carries the first EXCERPT_LEN bytes of the body.
C25_PreCheckRejects ==
    (/\ phase = "processing"
     /\ resource.cls \in {Subclass(b) : b \in FormatBases}
     /\ \/ LStrip(request.content) = <<>>
        \/ IF resource.cls.base = XmlResource
           THEN Head(LStrip(request.content)) # "decl"
           ELSE Head(LStrip(request.content)) \notin {"{", "["}) =>
        /\ Resource_format_post(resource, request, request.content).exc = "ValueError"
        /\ Resource_format_post(resource, request, request.content).msg
              = Take(request.content, EXCERPT_LEN)
        /\ Len(Resource_format_post(resource, request, request.content).msg) <= EXCERPT_LEN
        /\ trace.handlerCalls = 0

\* C26: a render that invokes a handler returns NOT_DONE_YET, the handler
\* having returned a value, returned a Deferred or raised; in that step
\* nothing but on_response and on_failure writes a body (the server's own
\* write of the empty string for a HEAD apart).
C26_RenderReturnsNotDoneYet ==
    [][trace'.handlerCalls > trace.handlerCalls =>
          /\ trace'.renderRet = "NOT_DONE_YET"
          /\ IF df' = "fired"
             THEN /\ trace'.before.written = request.written
                  /\ request'.written \in
                        {trace'.after.written, Append(trace'.after.written, "")}
             ELSE request'.written \in {request.written, Append(request.written, "")}]_vars

\* C26 witness: a handler raised inside render; render returned NOT_DONE_YET
\* and on_failure wrote the envelope.
C26_Witness ==
    /\ trace.handlerCalls = 1
    /\ trace.handed = "raise"
    /\ trace.renderRet = "NOT_DONE_YET"
    /\ trace.onFail = 1
    /\ request.written = <<"Unhandled Error">>

\* C27: for a class decorated with FormEncodedPost, _format_post returns
\* request.args when the Content-Type is application/x-www-form-urlencoded or
\* contains multipart/form-data, and for any other request, one without a
\* Content-Type header included, gives what the format's own _format_post
\* gives for the body (the value or the exception); the handler is called
\* with that value.
C27_FormEncodedPost ==
    (/\ phase = "processing"
     /\ resource.cls \in {ResourceMixin_mixin("FormEncodedPost", Subclass(b)) :
                             b \in FormatBases}) =>
        /\ Resource_format_post(resource, request, request.content) =
              (IF request.contentType = WWW_FORM \/ Contains_FORM_DATA(request.contentType)
               THEN [exc |-> "none", msg |-> <<>>, value |-> request.args]
               ELSE Resource_format_post([resource EXCEPT !.cls = Subclass(resource.cls.base)],
                                         request, request.content))
        /\ trace.handlerCalls >= 1 =>
              trace.callArgs =
                 <<<<"request">>,
                   Resource_format_post(resource, request, request.content).value>>

\* C28: for a class decorated with EmptyPost, an empty or white-space body of
\* a POST or PUT reaches the handler as None, and any other body gives what
\* the format's own _format_post gives for it: the handler called with the
\* decoded value, or the 400 answer.
C28_EmptyPost ==
    (/\ phase = "processing"
     /\ resource.cls \in {ResourceMixin_mixin("EmptyPost", Subclass(b)) : b \in FormatBases}) =>
        IF LStrip(request.content) = <<>>
        THEN /\ trace.handlerCalls = 1
             /\ trace.callArgs = <<<<"request">>, NoneValue>>
        ELSE /\ Resource_format_post(resource, request, request.content) =
                   Resource_format_post([resource EXCEPT !.cls = Subclass(resource.cls.base)],
                                        request, request.content)
             /\ IF Resource_format_post([resource EXCEPT !.cls = Subclass(resource.cls.base)],
                                        request, request.content).exc = "none"
                THEN /\ trace.handlerCalls = 1
                     /\ trace.callArgs =
                           <<<<"request">>,
                             Resource_format_post(
                                 [resource EXCEPT !.cls = Subclass(resource.cls.base)],
                                 request, request.content).value>>
                ELSE trace.handlerCalls = 0 /\ request.written # <<"encoded">>

\* C29: for a class decorated with StringResponse, a byte string the handler
\* returns is written as it is, a unicode string is written encoded with the
\* resource's encoding, and any other value is answered as by the undecorated
\* class; the decoration adds the string types to the HANDLE_TYPES of the
\* decorated class and leaves the format class as it was.
C29_StringResponse ==
    (/\ phase = "processing"
     /\ trace.handlerCalls = 1
     /\ resource.cls \in {ResourceMixin_mixin("StringResponse", Subclass(b)) :
                             b \in FormatBases}) =>
        /\ trace.respKind = "str" =>
              /\ request.code = 200
              /\ request.written = <<"encoded">>
              /\ trace.body = DefaultValue("str").items
        /\ trace.respKind = "unicode" =>
              /\ request.code = 200
              /\ request.written = <<"encoded">>
              /\ trace.body = Encode(DefaultValue("unicode").items, resource.encoding)
        /\ trace.respKind \in {"value", "element"} =>
              /\ (trace.respKind \in Class_HANDLE_TYPES(resource.cls))
                    = (trace.respKind \in resource.cls.base.HANDLE_TYPES)
              /\ trace.respKind \in resource.cls.base.HANDLE_TYPES =>
                    /\ request.code = 200
                    /\ trace.body =
                          Resource_format_response(
                              [resource EXCEPT !.cls = Subclass(resource.cls.base)],
                              Returned(Outcome(trace.handed, NoResource), trace.callArgs)).data
              /\ trace.respKind \notin resource.cls.base.HANDLE_TYPES =>
                    request.code = INTERNAL_SERVER_ERROR
        /\ Class_HANDLE_TYPES(resource.cls) = resource.cls.base.HANDLE_TYPES \cup {"str", "unicode"}
        /\ resource.cls.base \in FormatBases

\* C29 witness: the handler of a decorated XmlResource subclass with the
\* encoding latin-1 returned a unicode string, which was written in latin-1;
\* XmlResource's HANDLE_TYPES are the Element types still.
C29_Witness ==
    /\ resource.cls = ResourceMixin_mixin("StringResponse", Subclass(XmlResource))
    /\ resource.encoding = "latin-1"
    /\ trace.respKind = "unicode"
    /\ request.code = 200
    /\ request.finished
    /\ trace.body = <<"s", "E9">>
    /\ resource.cls.base.HANDLE_TYPES = Xml_HANDLE_TYPES

\* C30: with the reactor running what is queued and every handler completing,
\* a request for which a handler was invoked is eventually finished unless
\* the client disconnects, also when the handlers keep returning resources.
C30_EventuallyFinished ==
    (trace.handlerCalls >= 1) ~> (request.finished \/ connLost)

\* C31: once the client has disconnected no handler is invoked for the request
\* and nothing is written, also when the disconnect comes between on_response
\* queueing a nested resource and the render of that resource.
C31_NoHandlerAfterDisconnect ==
    [][request.disconnected =>
          /\ trace'.handlerCalls = trace.handlerCalls
          /\ request'.written = request.written]_vars

\* C32: each call of render invokes the resolved handler once when the
\* resolution and the body intake succeed and not at all otherwise; a render
\* that invokes a handler registers the disconnect errback once, and an
\* errback only cancels the Deferred of the render that registered it.
C32_OneHandlerOneNotifier ==
    [][/\ trace'.renders > trace.renders =>
             \E verb \in {IF trace'.renders = trace.renders + 2 THEN "GET"
                          ELSE request.method} :
                /\ trace'.invoked =
                      (IF /\ GetAttr(resource', ResolveName(resource', verb)) = "func"
                          /\ \/ verb \notin {"POST", "PUT"}
                             \/ /\ request.readable
                                /\ Resource_format_post(
                                       resource', World,
                                       IF request.contentRead THEN <<>>
                                       ELSE request.content).exc = "none"
                       THEN 1 ELSE 0)
                /\ trace'.handlerCalls = trace.handlerCalls + trace'.invoked
                /\ trace'.registered = trace'.invoked
       /\ trace'.renders = trace.renders => trace'.handlerCalls = trace.handlerCalls
       /\ \A n \in trace'.notifiers : n.deferred = n.render
       /\ \A c \in trace'.cancelled : c.deferred = c.by
       /\ (connLost' /\ ~connLost /\ df = "pending" /\ df' = "fired") =>
             trace.dfId \in {c.deferred : c \in trace'.cancelled}]_vars

\* the connection is lost while the Deferred of the third render is pending:
\* the three errbacks run, the one of the third render cancels it
C32_Witness ==
    /\ trace.renders = 3
    /\ trace.handlerCalls = 3
    /\ trace.registered = 1
    /\ trace.branch = "cancelled"
    /\ [by |-> 3, deferred |-> 3] \in trace.cancelled
    /\ [by |-> 1, deferred |-> 1] \in trace.cancelled

\* C33: requests interleaved on one resource instance do not influence one
\* another: no event mutates the instance; an event of one request (its
\* render, its Deferred firing, its disconnect) leaves the other request as it
\* was, not cancelled, not written to, not finished; and when the reactor
\* turns to the other request, that request is found as its own last event
\* left it.
C33_RequestsIndependent ==
    [][/\ resource' = resource
       /\ \/ peer' = peer
          \/ peer' = Own /\ Own' = peer]_vars

\* one request was cancelled by its client's disconnect while the other,
\* its Deferred pending all along, is still in flight
C33_Witness ==
    /\ trace.branch = "cancelled"
    /\ request.disconnected
    /\ peer.df = "pending"
    /\ peer.trace.handlerCalls = 1
    /\ ~peer.connLost
    /\ peer.request.written = <<>>

\* C34: constructing a RestResource with an unknown encoding fails with
\* LookupError; constructing one whose class lacks one of ACCEPT, CONTENT_TYPE,
\* HANDLE_TYPES, ERROR_CLASS fails with a ValueError that names the class and
\* the missing attribute; in both cases no resource is returned.
C34_ConstructionFails ==
    phase = "constructed" =>
        /\ codecs_lookup(resource.encoding) # "none" =>
              trace.exc = "LookupError" /\ trace.self = NoResource
        /\ (codecs_lookup(resource.encoding) = "none"
              /\ FirstMissing(resource.class.declared) # 0) =>
              /\ trace.exc = "ValueError"
              /\ \E i, j \in 1..Len(trace.args) :
                    /\ trace.args[i] = resource.class.name
                    /\ trace.args[j] \in {SUBCLASS_ATTRS[k] : k \in 1..Len(SUBCLASS_ATTRS)}
                                           \ resource.class.declared
              /\ trace.self = NoResource

\* C35: for an instance of a decorated class or of a class derived from one,
\* the call a mixin method makes through super(self.__class__, self) ends in
\* the format's own _format_post / _format_response and gives what that
\* gives; the mixin method is not entered again.  The call is made by
\* EmptyPost for a body that is not empty, by FormEncodedPost for a request
\* that is not a form, by StringResponse for a response that is no string.
C35_SuperReachesFormat ==
    phase = "processing" =>
        /\ (/\ Class_format_post(resource.cls) = "EmptyPost"
            /\ LStrip(request.content) # <<>>) =>
              Resource_format_post(resource, request, request.content) =
                 Resource_format_post(
                     [resource EXCEPT !.cls = Subclass(FormatClass(resource.cls))],
                     request, request.content)
        /\ (/\ Class_format_post(resource.cls) = "FormEncodedPost"
            /\ request.contentType \notin {NoHeader, WWW_FORM}
            /\ ~Contains_FORM_DATA(request.contentType)) =>
              Resource_format_post(resource, request, request.content) =
                 Resource_format_post(
                     [resource EXCEPT !.cls = Subclass(FormatClass(resource.cls))],
                     request, request.content)
        /\ (/\ Class_format_response(resource.cls) = "StringResponse"
            /\ trace.handlerCalls = 1
            /\ trace.respKind \in FormatClass(resource.cls).HANDLE_TYPES) =>
              /\ request.code = 200
              /\ trace.body =
                    Resource_format_response(
                        [resource EXCEPT !.cls = Subclass(FormatClass(resource.cls))],
                        Returned(Outcome(trace.handed, NoResource), trace.callArgs)).data

====
